---- MODULE Spec2Model ----
(***************************************************************************)
(* The retinanet benchmark trainer                                         *)
(* (training/benchmarks/retinanet/pytorch/train/trainer.py).               *)
(*                                                                         *)
(* Spec     : one trainer process; the driver calls train_one_epoch once   *)
(*            per epoch.  In distributed mode the rest of the world is     *)
(*            seen through what the all-reduce of reduce_dict returns.     *)
(* SpecDist : the mini-batch loop of train_one_epoch run by every rank of  *)
(*            a distributed job, with reduce_dict as a collective.         *)
(*                                                                         *)
(* Floating point losses are modelled by a small saturating number line:   *)
(* the finite values -FMax..FMax, the two infinities and NaN; the forward  *)
(* pass yields losses in 0..FMax, +inf or NaN.  Mean average precision is  *)
(* scaled to the integers 0..MaxMAP.                                       *)
(***************************************************************************)
EXTENDS Integers, Sequences, FiniteSets, TLC

\* ---------------------------------------------------------------- bounds
FMax == 1
MaxMAP == 2
MaxEpochs == 2
NumBatches == 2
DatasetLen == 3
NRanks == 2

VARIABLES
    config,             \* self.config
    data_loader,        \* train_dataloader
    pc,                 \* position of the trainer process
    training_state,     \* self.training_state
    epoch,              \* local epoch of train_one_epoch
    batch,              \* mini-batches of the current call already trained
    losses,             \* local losses
    loss_dict_reduced,  \* local loss_dict_reduced
    lr_scheduler,       \* local lr_scheduler (the warmup scheduler)
    self_lr_scheduler,  \* self.lr_scheduler
    evaluator,          \* self.evaluator
    printed,            \* what the current call wrote to standard output
    exit_status,        \* exit status of the process, -1 while it runs
    log,                \* history: operations of the current call, in order
    at_entry,           \* history: training_state when the call started
    completed,          \* history: number of completed train_one_epoch calls
    ranks               \* SpecDist: the processes of a distributed job

vars == <<config, data_loader, pc, training_state, epoch, batch, losses,
          loss_dict_reduced, lr_scheduler, self_lr_scheduler, evaluator,
          printed, exit_status, log, at_entry, completed, ranks>>

trainerVars == <<config, data_loader, pc, training_state, epoch, batch, losses,
                 loss_dict_reduced, lr_scheduler, self_lr_scheduler, evaluator,
                 printed, exit_status, log, at_entry, completed>>

\* ------------------------------------------------------- floating point
PosInf == FMax + 1
NegInf == 0 - (FMax + 1)
NaN == FMax + 2

LossVals == (0 .. FMax) \cup {PosInf, NaN}
LossDicts == LossVals \X LossVals
NoDict == <<>>
NoLoss == 0 - (FMax + 3)

\* a + b on tensors
Fadd(a, b) ==
    IF a = NaN \/ b = NaN THEN NaN
    ELSE IF (a = PosInf /\ b = NegInf) \/ (a = NegInf /\ b = PosInf) THEN NaN
    ELSE IF a = PosInf \/ a = NegInf THEN a
    ELSE IF b = PosInf \/ b = NegInf THEN b
    ELSE IF a + b > FMax THEN PosInf
    ELSE IF a + b < 0 - FMax THEN NegInf
    ELSE a + b

\* values /= world_size
Fdiv(a, n) ==
    IF a = NaN \/ a = PosInf \/ a = NegInf THEN a
    ELSE IF a >= 0 THEN a \div n ELSE 0 - ((0 - a) \div n)

RECURSIVE SumFrom(_, _, _)
SumFrom(acc, d, i) ==
    IF i > Len(d) THEN acc ELSE SumFrom(Fadd(acc, d[i]), d, i + 1)

\* sum(loss for loss in loss_dict.values())
SumLosses(d) == SumFrom(0, d, 1)

\* math.isfinite
MathIsFiniteNotNan(x) == x # NaN
MathIsFinite(x) == x >= 0 - FMax /\ x <= FMax

RECURSIVE AllReduceFrom(_, _, _, _)
AllReduceFrom(acc, ds, k, i) ==
    IF i > Len(ds) THEN acc ELSE AllReduceFrom(Fadd(acc, ds[i][k]), ds, k, i + 1)

\* utils.utils.reduce_dict: ds holds the dicts the processes bring to the
\* all-reduce, in the order it adds them; a single process gets its own back
ReduceDict(ds, world_size) ==
    IF world_size < 2 THEN ds[1]
    ELSE [k \in DOMAIN ds[1] |->
             Fdiv(AllReduceFrom(ds[1][k], ds, k, 2), world_size)]

\* losses_reduced = sum(...); loss_value = losses_reduced.item()
LossValueLocal(own, reduced) == own
LossValue(own, reduced) == SumLosses(reduced)

\* ------------------------------------------------------------ constants
WarmupItersCap == 1000
ExitCode == 1
Running == 0 - 1

Min(a, b) == IF a < b THEN a ELSE b

MapValues == 0 .. MaxMAP
\* coco_eval['bbox'].stats: AP over IoU .50:.95 first, then AP at IoU .50,
\* which is never below it
StatsValues == {s \in MapValues \X MapValues : s[1] <= s[2]}

WorldSize == IF config.distributed THEN NRanks ELSE 1

NoScheduler == [exists |-> FALSE, warmup_iters |-> 0, steps |-> 0]

Line(tag, num, dict) == [tag |-> tag, num |-> num, dict |-> dict]

\* ------------------------------------------------- policy of the trainer
\* if epoch == 0:
WarmupEpochFirstTwo(e) == e <= 1
WarmupEpoch(e) == e = 0

\* utils.utils.warmup_lr_scheduler(optimizer, warmup_iters, warmup_factor)
WarmupScheduler(loader) ==
    [exists |-> TRUE,
     warmup_iters |-> Min(WarmupItersCap, loader.num_batches - 1),
     steps |-> 0]

\* state.num_trained_samples += len(data_loader.dataset)
SamplesAfterEpochBatches(n, loader) == n + loader.num_batches
SamplesAfterEpoch(n, loader) == n + loader.dataset_len

\* self.evaluator = Evaluator(coco) ... accumulate(); summarize()
KeepEvaluator(old, stats, ep) == old
NewEvaluator(old, stats, ep) == [made_in |-> ep, stats |-> stats]

\* if state.eval_mAP >= config.target_mAP:
ReachedTargetStrict(m, t) == m > t
ReachedTarget(m, t) == m >= t

\* if epoch >= config.max_epoch:
EpochCeilingStrict(e, m) == e > m
EpochCeiling(e, m) == e >= m

\* TrainingState.converged_success
ConvergedSuccess(s, alsoEnd) ==
    [s EXCEPT !.converged = TRUE,
              !.end_training = IF alsoEnd THEN TRUE ELSE @]

\* lines 115-124 on the training state
AfterChecksAssign(s, m, ep, cfg, alsoEnd) ==
    [s EXCEPT !.eval_mAP = m,
              !.converged = ReachedTarget(m, cfg.target_mAP),
              !.end_training = EpochCeiling(ep, cfg.max_epoch)]
AfterChecks(s, m, ep, cfg, alsoEnd) ==
    LET s1 == [s EXCEPT !.eval_mAP = m]
        s2 == IF ReachedTarget(m, cfg.target_mAP)
              THEN ConvergedSuccess(s1, alsoEnd) ELSE s1
    IN  IF EpochCeiling(ep, cfg.max_epoch)
        THEN [s2 EXCEPT !.end_training = TRUE] ELSE s2

\* ------------------------------------------------------------------ Spec
Configs ==
    [target_mAP : 1 .. MaxMAP, max_epoch : 1 .. MaxEpochs, log_freq : {1},
     distributed : BOOLEAN, device : {"cuda"}]

\* TrainingState() as the driver builds it
InitialTrainingState ==
    [epoch |-> 0, num_trained_samples |-> 0, eval_mAP |-> 0,
     converged |-> FALSE, end_training |-> FALSE]

IdleRanks == [r \in 1 .. NRanks |->
                 [pc |-> "off", batch |-> 0, loss_dict |-> NoDict,
                  losses |-> NoLoss, loss_dict_reduced |-> NoDict,
                  steps |-> 0, exit_status |-> Running]]

\* Trainer.__init__
Init ==
    /\ config \in Configs
    /\ data_loader = [dataset_len |-> DatasetLen, num_batches |-> NumBatches,
                      sampler_epoch |-> 0]
    /\ pc = "new"
    /\ training_state = InitialTrainingState
    /\ epoch = 0
    /\ batch = 0
    /\ losses = NoLoss
    /\ loss_dict_reduced = NoDict
    /\ lr_scheduler = NoScheduler
    /\ self_lr_scheduler = [exists |-> FALSE, last_epoch |-> 0]
    /\ evaluator = [made_in |-> Running, stats |-> <<0, 0>>]
    /\ printed = <<>>
    /\ exit_status = Running
    /\ log = <<>>
    /\ at_entry = training_state
    /\ completed = 0
    /\ ranks = IdleRanks

\* Trainer.init
TrainerInit ==
    /\ pc = "new"
    /\ pc' = "idle"
    /\ self_lr_scheduler' = [exists |-> TRUE, last_epoch |-> 0]
    /\ UNCHANGED <<config, data_loader, training_state, epoch, batch, losses,
                   loss_dict_reduced, lr_scheduler, evaluator, printed,
                   exit_status, log, at_entry, completed, ranks>>

\* train_one_epoch, lines 48-72
StartEpoch ==
    /\ pc = "idle"
    /\ pc' = "loop"
    /\ epoch' = training_state.epoch
    /\ data_loader' = IF config.distributed
                      THEN [data_loader EXCEPT !.sampler_epoch = training_state.epoch]
                      ELSE data_loader
    /\ lr_scheduler' = IF WarmupEpoch(training_state.epoch)
                       THEN WarmupScheduler(data_loader) ELSE NoScheduler
    /\ batch' = 0
    /\ printed' = <<>>
    /\ log' = <<>>
    /\ at_entry' = training_state
    /\ UNCHANGED <<config, training_state, losses, loss_dict_reduced,
                   self_lr_scheduler, evaluator, exit_status, completed, ranks>>

\* lines 74-90: the next mini-batch, the forward pass and reduce_dict
Forward(loss_dict, others) ==
    /\ pc = "loop"
    /\ batch < data_loader.num_batches
    /\ pc' = "check"
    /\ losses' = SumLosses(loss_dict)
    /\ loss_dict_reduced' =
           ReduceDict(IF config.distributed THEN <<loss_dict, others>>
                      ELSE <<loss_dict>>, WorldSize)
    /\ UNCHANGED <<config, data_loader, training_state, epoch, batch,
                   lr_scheduler, self_lr_scheduler, evaluator, printed,
                   exit_status, log, at_entry, completed, ranks>>

\* lines 92-95
AbortSilent ==
    /\ pc = "check"
    /\ ~MathIsFinite(LossValue(losses, loss_dict_reduced))
    /\ pc' = "exited"
    /\ exit_status' = 0
    /\ UNCHANGED <<config, data_loader, training_state, epoch, batch, losses,
                   loss_dict_reduced, lr_scheduler, self_lr_scheduler,
                   evaluator, printed, log, at_entry, completed, ranks>>
Abort ==
    /\ pc = "check"
    /\ ~MathIsFinite(LossValue(losses, loss_dict_reduced))
    /\ pc' = "exited"
    /\ printed' = printed \o
           <<Line("Loss is", LossValue(losses, loss_dict_reduced), NoDict),
             Line("loss_dict_reduced", 0, loss_dict_reduced)>>
    /\ exit_status' = ExitCode
    /\ UNCHANGED <<config, data_loader, training_state, epoch, batch, losses,
                   loss_dict_reduced, lr_scheduler, self_lr_scheduler,
                   evaluator, log, at_entry, completed, ranks>>

\* lines 97-106; the locals of the loop body are dead once it ends
TrainStep ==
    /\ pc = "check"
    /\ MathIsFinite(LossValue(losses, loss_dict_reduced))
    /\ pc' = "loop"
    /\ log' = log \o <<"backward">> \o
                 (IF lr_scheduler.exists THEN <<"warmup_step">> ELSE <<>>)
    /\ lr_scheduler' = IF lr_scheduler.exists
                       THEN [lr_scheduler EXCEPT !.steps = @ + 1]
                       ELSE lr_scheduler
    /\ batch' = batch + 1
    /\ losses' = NoLoss
    /\ loss_dict_reduced' = NoDict
    /\ UNCHANGED <<config, data_loader, training_state, epoch,
                   self_lr_scheduler, evaluator, printed, exit_status,
                   at_entry, completed, ranks>>

\* lines 108-110
EndOfBatches ==
    /\ pc = "loop"
    /\ batch = data_loader.num_batches
    /\ pc' = "evaluate"
    /\ self_lr_scheduler' = [self_lr_scheduler EXCEPT !.last_epoch = @ + 1]
    /\ training_state' =
           [training_state EXCEPT !.num_trained_samples =
                                       SamplesAfterEpoch(@, data_loader)]
    /\ log' = log \o <<"lr_step">>
    /\ UNCHANGED <<config, data_loader, epoch, batch, losses,
                   loss_dict_reduced, lr_scheduler, evaluator, printed,
                   exit_status, at_entry, completed, ranks>>

\* line 113: Trainer.evaluate
Evaluate(stats) ==
    /\ pc = "evaluate"
    /\ pc' = "evaluated"
    /\ evaluator' = NewEvaluator(evaluator, stats, epoch)
    /\ log' = log \o <<"evaluate">>
    /\ UNCHANGED <<config, data_loader, training_state, epoch, batch, losses,
                   loss_dict_reduced, lr_scheduler, self_lr_scheduler,
                   printed, exit_status, at_entry, completed, ranks>>

\* lines 115-124 and the return
FinishRetarget(alsoEnd) ==
    /\ pc = "evaluated"
    /\ pc' = "returned"
    /\ training_state' = AfterChecks(training_state, evaluator.stats[1],
                                     epoch, config, alsoEnd)
    /\ config' = IF ReachedTarget(evaluator.stats[1], config.target_mAP)
                 THEN [config EXCEPT !.target_mAP = evaluator.stats[1] + 1]
                 ELSE config
    /\ printed' = printed \o
           <<Line("eval_mAP", evaluator.stats[1], NoDict)>> \o
           (IF ReachedTarget(evaluator.stats[1], config.target_mAP)
            THEN <<Line("converged_success", evaluator.stats[1], NoDict)>>
            ELSE <<>>)
    /\ log' = log \o <<"checks">>
    /\ completed' = completed + 1
    /\ lr_scheduler' = NoScheduler
    /\ UNCHANGED <<data_loader, epoch, batch, losses, loss_dict_reduced,
                   self_lr_scheduler, evaluator, exit_status, at_entry, ranks>>
Finish(alsoEnd) ==
    /\ pc = "evaluated"
    /\ pc' = "returned"
    /\ training_state' = AfterChecks(training_state, evaluator.stats[1],
                                     epoch, config, alsoEnd)
    /\ printed' = printed \o
           <<Line("eval_mAP", evaluator.stats[1], NoDict)>> \o
           (IF ReachedTarget(evaluator.stats[1], config.target_mAP)
            THEN <<Line("converged_success", evaluator.stats[1], NoDict)>>
            ELSE <<>>)
    /\ log' = log \o <<"checks">>
    /\ completed' = completed + 1
    /\ lr_scheduler' = NoScheduler
    /\ UNCHANGED <<config, data_loader, epoch, batch, losses,
                   loss_dict_reduced, self_lr_scheduler, evaluator,
                   exit_status, at_entry, ranks>>

\* the driver's epoch loop: training_state.epoch += 1 between two calls
NextEpoch ==
    /\ pc = "returned"
    /\ training_state.epoch < MaxEpochs
    /\ pc' = "idle"
    /\ training_state' = [training_state EXCEPT !.epoch = @ + 1]
    /\ UNCHANGED <<config, data_loader, epoch, batch, losses,
                   loss_dict_reduced, lr_scheduler, self_lr_scheduler,
                   evaluator, printed, exit_status, log, at_entry, completed,
                   ranks>>

Next ==
    \/ TrainerInit
    \/ StartEpoch
    \/ \E d \in LossDicts :
           \E others \in (IF config.distributed THEN LossDicts ELSE {NoDict}) :
               Forward(d, others)
    \/ Abort
    \/ TrainStep
    \/ EndOfBatches
    \/ \E stats \in StatsValues : Evaluate(stats)
    \/ \E alsoEnd \in BOOLEAN : Finish(alsoEnd)
    \/ NextEpoch

Spec == Init /\ [][Next]_vars

\* -------------------------------------------------------------- SpecDist
Ranks == 1 .. NRanks

InitDist ==
    /\ config \in {c \in Configs :
                      c.distributed /\ c.target_mAP = 1 /\ c.max_epoch = 1}
    /\ data_loader = [dataset_len |-> DatasetLen, num_batches |-> NumBatches,
                      sampler_epoch |-> 0]
    /\ pc = "new"
    /\ training_state = InitialTrainingState
    /\ epoch = 0
    /\ batch = 0
    /\ losses = NoLoss
    /\ loss_dict_reduced = NoDict
    /\ lr_scheduler = NoScheduler
    /\ self_lr_scheduler = [exists |-> FALSE, last_epoch |-> 0]
    /\ evaluator = [made_in |-> Running, stats |-> <<0, 0>>]
    /\ printed = <<>>
    /\ exit_status = Running
    /\ log = <<>>
    /\ at_entry = training_state
    /\ completed = 0
    /\ ranks = [r \in Ranks |-> [IdleRanks[r] EXCEPT !.pc = "loop"]]

\* lines 74-84 on rank r
DistForward(r, loss_dict) ==
    /\ ranks[r].pc = "loop"
    /\ ranks[r].batch < data_loader.num_batches
    /\ ranks' = [ranks EXCEPT ![r].pc = "reduce",
                              ![r].loss_dict = loss_dict,
                              ![r].losses = SumLosses(loss_dict)]
    /\ UNCHANGED trainerVars

\* line 87: the all-reduce inside reduce_dict returns once every rank has
\* entered it, with the same tensor on every rank
DistReduce ==
    /\ \A r \in Ranks : ranks[r].pc = "reduce"
    /\ ranks' = [r \in Ranks |->
                    [ranks[r] EXCEPT
                        !.pc = "check",
                        !.loss_dict_reduced =
                            ReduceDict([q \in Ranks |-> ranks[q].loss_dict],
                                       WorldSize)]]
    /\ UNCHANGED trainerVars

\* lines 88-95 on rank r
DistAbort(r) ==
    /\ ranks[r].pc = "check"
    /\ ~MathIsFinite(LossValue(ranks[r].losses, ranks[r].loss_dict_reduced))
    /\ ranks' = [ranks EXCEPT ![r].pc = "exited",
                              ![r].exit_status = ExitCode]
    /\ UNCHANGED trainerVars

\* lines 88-106 on rank r
DistTrainStep(r) ==
    /\ ranks[r].pc = "check"
    /\ MathIsFinite(LossValue(ranks[r].losses, ranks[r].loss_dict_reduced))
    /\ ranks' = [ranks EXCEPT ![r].pc = "loop",
                              ![r].steps = @ + 1,
                              ![r].batch = @ + 1,
                              ![r].loss_dict = NoDict,
                              ![r].losses = NoLoss,
                              ![r].loss_dict_reduced = NoDict]
    /\ UNCHANGED trainerVars

\* the loop of lines 74-106 is exhausted on rank r
DistEndOfBatches(r) ==
    /\ ranks[r].pc = "loop"
    /\ ranks[r].batch = data_loader.num_batches
    /\ ranks' = [ranks EXCEPT ![r].pc = "after_loop"]
    /\ UNCHANGED trainerVars

NextDist ==
    \/ \E r \in Ranks : \E d \in LossDicts : DistForward(r, d)
    \/ DistReduce
    \/ \E r \in Ranks : DistAbort(r)
    \/ \E r \in Ranks : DistTrainStep(r)
    \/ \E r \in Ranks : DistEndOfBatches(r)

SpecDist == InitDist /\ [][NextDist]_vars

\* ---------------------------------------------------------------- claims
NonFinite(x) == x \in {PosInf, NegInf, NaN}

\* the loss value of the current mini-batch step: the sum of the reduced dict
StepLossValue == SumLosses(loss_dict_reduced)

Count(seq, x) == Cardinality({i \in DOMAIN seq : seq[i] = x})

RECURSIVE Repeat(_, _)
Repeat(seq, n) == IF n = 0 THEN <<>> ELSE seq \o Repeat(seq, n - 1)

\* what a completed call of epoch e does, in order
ExpectedLog(e) ==
    Repeat(IF e = 0 THEN <<"backward", "warmup_step">> ELSE <<"backward">>,
           data_loader.num_batches)
    \o <<"lr_step", "evaluate", "checks">>

\* C1 as stated: after a completed train_one_epoch call, converged is true
\* if and only if eval_mAP is at least config.target_mAP.
C1_ConvergedIffTarget ==
    pc = "returned" =>
        (training_state.converged <=>
             training_state.eval_mAP >= config.target_mAP)

\* C1 amended: a completed train_one_epoch call leaves converged true if and
\* only if it was true when the call started or the eval_mAP this call
\* stored is at least config.target_mAP.
C1_ConvergedLatched ==
    [][(pc = "evaluated" /\ pc' = "returned") =>
           (training_state'.converged <=>
                (training_state.converged
                 \/ training_state'.eval_mAP >= config.target_mAP))]_vars

C1_Witness ==
    /\ pc = "returned"
    /\ training_state.converged
    /\ training_state.eval_mAP < config.target_mAP

\* C2: when a train_one_epoch call returns with the epoch counter at least
\* config.max_epoch, end_training is true.
C2_EndAtCeiling ==
    (pc = "returned" /\ training_state.epoch >= config.max_epoch)
        => training_state.end_training

C2_Witness ==
    /\ pc = "returned"
    /\ training_state.epoch = config.max_epoch
    /\ training_state.end_training
    /\ training_state.eval_mAP < config.target_mAP

\* C3: a mini-batch step whose loss value is non-finite is followed by the
\* exit of the process and by nothing else: no backward step, no scheduler
\* step, no evaluation and no change of the training state at that step, and
\* nothing at all once the process has exited.
C3_NonFiniteHalts ==
    [][/\ (pc = "check" /\ NonFinite(StepLossValue)) =>
              /\ pc' = "exited"
              /\ UNCHANGED <<log, batch, training_state, lr_scheduler,
                             self_lr_scheduler, evaluator>>
       /\ pc = "exited" => UNCHANGED trainerVars
       /\ (pc = "check" /\ Len(log') > Len(log)) => ~NonFinite(StepLossValue)]_vars

C3_Witness ==
    /\ pc = "exited"
    /\ NonFinite(StepLossValue)
    /\ batch >= 1
    /\ Count(log, "backward") = batch
    /\ completed >= 1

\* C4: a process that stopped on a non-finite loss has a non-zero exit
\* status, and the last two things it printed are the loss value and the
\* reduced loss dictionary; a process that has not stopped has no status.
C4_ExitDiagnostics ==
    /\ pc = "exited" =>
           /\ exit_status # 0
           /\ exit_status # Running
           /\ Len(printed) >= 2
           /\ printed[Len(printed) - 1] = Line("Loss is", StepLossValue, NoDict)
           /\ printed[Len(printed)] =
                  Line("loss_dict_reduced", 0, loss_dict_reduced)
    /\ pc # "exited" => exit_status = Running

C4_Witness ==
    /\ pc = "exited"
    /\ exit_status = ExitCode
    /\ StepLossValue = PosInf
    /\ printed[Len(printed)].dict # NoDict

\* C5: when a train_one_epoch call returns, evaluation has run exactly once
\* in it, after the backward steps of all mini-batches and right before the
\* convergence and end-of-training checks, and the eval_mAP of the training
\* state is the first statistic of the evaluator built by this call.
C5_EvalOncePerEpoch ==
    pc = "returned" =>
        /\ Count(log, "evaluate") = 1
        /\ Len(log) >= 2
        /\ log[Len(log)] = "checks"
        /\ log[Len(log) - 1] = "evaluate"
        /\ Count(SubSeq(log, 1, Len(log) - 2), "backward") =
               data_loader.num_batches
        /\ Count(log, "checks") = 1
        /\ evaluator.made_in = epoch
        /\ training_state.eval_mAP = evaluator.stats[1]

C5_Witness ==
    /\ pc = "returned"
    /\ completed >= 2
    /\ evaluator.made_in = epoch
    /\ training_state.eval_mAP # at_entry.eval_mAP
    /\ evaluator.stats[2] # evaluator.stats[1]

\* C6: no step of the trainer changes a configuration value.
C6_ConfigImmutable == [][config' = config]_vars

C6_Witness ==
    /\ pc = "returned"
    /\ completed >= 2
    /\ training_state.converged
    /\ training_state.end_training

\* C7: between calls num_trained_samples is its initial value plus the number
\* of completed calls times the dataset length, and a call aborted by a
\* non-finite loss leaves num_trained_samples, eval_mAP, converged and
\* end_training as they were when it started.
C7_SampleCount ==
    /\ pc \in {"new", "idle", "returned"} =>
           training_state.num_trained_samples =
               InitialTrainingState.num_trained_samples
               + completed * data_loader.dataset_len
    /\ pc = "exited" =>
           /\ training_state.num_trained_samples =
                  InitialTrainingState.num_trained_samples
                  + completed * data_loader.dataset_len
           /\ training_state.num_trained_samples = at_entry.num_trained_samples
           /\ training_state.eval_mAP = at_entry.eval_mAP
           /\ training_state.converged = at_entry.converged
           /\ training_state.end_training = at_entry.end_training

C7_Witness ==
    /\ pc = "exited"
    /\ completed >= 2
    /\ batch >= 1
    /\ training_state.num_trained_samples = 2 * data_loader.dataset_len

\* C8: a completed call has stepped the main scheduler exactly once, after
\* the last mini-batch and before evaluation; in the epoch with counter 0 a
\* warmup scheduler exists and is stepped once per mini-batch right after
\* that mini-batch's backward step; in an epoch with a greater counter there
\* is no warmup scheduler and no step per mini-batch.
C8_SchedulerSteps ==
    /\ pc = "returned" => log = ExpectedLog(epoch)
    /\ pc \in {"idle", "returned"} => self_lr_scheduler.last_epoch = completed
    /\ pc \in {"loop", "check", "evaluate", "evaluated", "exited"} =>
           /\ lr_scheduler.exists <=> epoch = 0
           /\ lr_scheduler.steps = IF epoch = 0 THEN batch ELSE 0
           /\ Count(log, "warmup_step") = lr_scheduler.steps

C8_Witness ==
    /\ pc = "returned"
    /\ epoch >= 1
    /\ completed >= 2
    /\ Count(log, "warmup_step") = 0
    /\ self_lr_scheduler.last_epoch = 2

\* C9: all ranks take the same decision at a mini-batch step: the ranks that
\* check the loss of a step see the same reduced dict, and when a rank has
\* exited at a step no rank has made the backward step of that step or of a
\* later one.
C9_SameDecision ==
    \A a \in Ranks : \A b \in Ranks :
        /\ (ranks[a].pc = "check" /\ ranks[b].pc = "check") =>
               ranks[a].loss_dict_reduced = ranks[b].loss_dict_reduced
        /\ ranks[a].pc = "exited" => ranks[b].steps <= ranks[a].steps

C9_Witness ==
    \E a \in Ranks : \E b \in Ranks :
        /\ a # b
        /\ ranks[a].pc = "exited"
        /\ ranks[b].pc = "exited"
        /\ ~NonFinite(ranks[a].losses)
        /\ NonFinite(ranks[b].losses)
        /\ ranks[a].steps >= 1

\* C10: no step resets converged or end_training from true to false, and a
\* call whose epoch is at least config.max_epoch returns with end_training
\* true whatever the metric is.
C10_FlagsMonotonic ==
    [][/\ training_state.converged => training_state'.converged
       /\ training_state.end_training => training_state'.end_training
       /\ (pc = "evaluated" /\ pc' = "returned"
           /\ epoch >= config.max_epoch) => training_state'.end_training]_vars

C10_Witness ==
    /\ pc = "returned"
    /\ training_state.end_training
    /\ ~training_state.converged
    /\ at_entry.end_training
    /\ completed >= 2

====
